---- MODULE Spec2Model ----
(***************************************************************************)
(* Diet & Workout API (Scale_Sense_AI_Model): the two Flask programs       *)
(* src/testapi1.py and src/app.py.  Each loads diet_workout_model.pkl at   *)
(* import time, then serves POST /predict.  The model covers the start-up  *)
(* code, the global `model` object and the /predict handler, one action    *)
(* per block of the handler, for one or two worker threads.                *)
(*                                                                         *)
(* Python str values are TLA+ strings; lower(), `in`, str(int) and         *)
(* str(KeyError) are computed character by character.                      *)
(*                                                                         *)
(* Requests explored: JSON objects whose required fields, when present,    *)
(* are integers (a JSON float passes through the handler untouched, as an  *)
(* integer does) and whose optional fields, when present, are strings.     *)
(* A field of another JSON type makes .lower() or the predictor raise,     *)
(* which Flask answers with 500; those requests are outside the model.     *)
(***************************************************************************)
EXTENDS Integers, Sequences, FiniteSets, TLC

VARIABLES
    variant,          \* which program runs: "testapi1" or "app"
    pkl,              \* content of diet_workout_model.pkl on disk
    proc,             \* "starting", "serving" or "crashed"
    loaded_obj,       \* module global loaded_obj / model_dict
    model,            \* module global model
    pc,               \* per thread: position in the handler
    data,             \* per thread: request.get_json()
    user_allergy, user_preference, diet_type, workout_preference, user_goal,
    input_features,   \* per thread: the [1, 13] array
    predict_calls,    \* per thread: calls of model.predict in this request
    predicted_diet, predicted_workout,
    meals, meal_plan, workouts, workout_plan,
    response          \* per thread: (status, JSON body) returned

globals == <<variant, pkl, proc, loaded_obj, model>>
optionals == <<user_allergy, user_preference, diet_type, workout_preference, user_goal>>
predicted == <<predict_calls, predicted_diet, predicted_workout>>
plans == <<meals, meal_plan, workouts, workout_plan>>
vars == <<globals, pc, data, optionals, input_features, predicted, plans, response>>

(***************************************************************************)
(* Bounds of the explored inputs.                                          *)
(***************************************************************************)
MaxBmr == 3          \* bmr_kcal ranges over -MaxBmr..MaxBmr and TypicalBmr
TypicalBmr == 1500   \* one realistic bmr_kcal
MaxAct == 1          \* activity_level ranges over -MaxAct..MaxAct
NumProfiles == 2     \* distinct values of the other eleven required fields
MaxMissing == 2      \* required keys left out of one request

None == "None"

(***************************************************************************)
(* Python string operations.                                               *)
(***************************************************************************)
UpperCase == "ABCDEFGHIJKLMNOPQRSTUVWXYZ"
LowerCase == "abcdefghijklmnopqrstuvwxyz"
Digits == "0123456789"

CharAt(s, i) == SubSeq(s, i, i)

\* str.lower() of one character
LowerChar(c) ==
    IF \E i \in 1..Len(UpperCase) : CharAt(UpperCase, i) = c
    THEN CharAt(LowerCase, CHOOSE i \in 1..Len(UpperCase) : CharAt(UpperCase, i) = c)
    ELSE c

RECURSIVE Lower(_)
\* str.lower()
Lower(s) == IF s = "" THEN "" ELSE LowerChar(CharAt(s, 1)) \o Lower(Tail(s))

\* Python `sub in s` on two str
Contains(sub, s) ==
    \E i \in 0..(Len(s) - Len(sub)) : SubSeq(s, i + 1, i + Len(sub)) = sub

RECURSIVE NatToStr(_)
NatToStr(n) ==
    IF n < 10 THEN CharAt(Digits, n + 1)
    ELSE NatToStr(n \div 10) \o CharAt(Digits, (n % 10) + 1)

\* str(n) / f"{n}" of a Python int
IntToStr(n) == IF n < 0 THEN "-" \o NatToStr(-n) ELSE NatToStr(n)

\* str(KeyError(k)): the repr of the missing key
KeyErrorStr(k) == "'" \o k \o "'"

\* int(num / den) of Python: truncation toward zero (den > 0)
PyInt(num, den) == IF num >= 0 THEN num \div den ELSE -((-num) \div den)

(***************************************************************************)
(* The request body.                                                       *)
(***************************************************************************)
\* the 13 required keys, in the order the handler reads them
RequiredFields ==
    <<"age", "gender", "height_cm", "weight_kg", "bmi", "body_fat_percent",
      "muscle_mass_kg", "bone_mass_kg", "water_percent", "bmr_kcal",
      "visceral_fat", "metabolic_age", "activity_level">>

RequiredKeys == {RequiredFields[i] : i \in 1..Len(RequiredFields)}

UnusedKeys == {"user_preference", "diet_type", "workout_preference"}

\* dict.get(key, default)
Get(d, key, default) == IF key \in DOMAIN d THEN d[key] ELSE default

RECURSIVE FirstMissingFrom(_, _)
\* the lookups data['age'], data['gender'], ... one after the other: the key
\* of the first lookup that raises KeyError, or None when none does
FirstMissingFrom(d, i) ==
    IF i > Len(RequiredFields) THEN None
    ELSE IF RequiredFields[i] \notin DOMAIN d THEN RequiredFields[i]
    ELSE FirstMissingFrom(d, i + 1)

RECURSIVE LastMissingFrom(_, _)
LastMissingFrom(d, i) ==
    IF i < 1 THEN None
    ELSE IF RequiredFields[i] \notin DOMAIN d THEN RequiredFields[i]
    ELSE LastMissingFrom(d, i - 1)

\* mutant: reports the last absent key
LastMissing(d) == LastMissingFrom(d, Len(RequiredFields))

FirstMissing(d) == FirstMissingFrom(d, 1)

\* the 400 response of the except KeyError branch
MissingParameterResponse(k) ==
    [status |-> 400, body |-> [error |-> "Missing parameter: " \o KeyErrorStr(k)]]

\* mutant: bmr_kcal and activity_level change places
BuildVectorSwapped(d) ==
    << <<d["age"], d["gender"], d["height_cm"], d["weight_kg"], d["bmi"],
         d["body_fat_percent"], d["muscle_mass_kg"], d["bone_mass_kg"],
         d["water_percent"], d["activity_level"], d["visceral_fat"],
         d["metabolic_age"], d["bmr_kcal"]>> >>

\* np.array([[age, gender, ..., activity_level]]): one row of 13
BuildVector(d) ==
    << <<d["age"], d["gender"], d["height_cm"], d["weight_kg"], d["bmi"],
         d["body_fat_percent"], d["muscle_mass_kg"], d["bone_mass_kg"],
         d["water_percent"], d["bmr_kcal"], d["visceral_fat"],
         d["metabolic_age"], d["activity_level"]>> >>

(***************************************************************************)
(* The predictors.  input_features[0, j] is x[1][j + 1].                   *)
(***************************************************************************)
\* mutant: rounds bmr_kcal * 1.2 down instead of toward zero
HeuristicPredictFloor(x) == <<(x[1][10] * 6) \div 5, x[1][13] + 3>>

\* DummyModel.predict of a loaded dict.  bmr_kcal * 1.2 is a float64 product;
\* for an integer bmr_kcal its int() is that of the exact 6 * bmr_kcal / 5.
HeuristicPredict(x) ==
    LET bmr_kcal == x[1][10]
        activity_level == x[1][13]
    IN  <<PyInt(bmr_kcal * 6, 5), PyInt(activity_level + 3, 1)>>

\* DummyModel.predict of the fallback class
FallbackPredict(x) == <<1800, 4>>

RECURSIVE Dot(_, _, _)
Dot(w, row, i) == IF i > Len(row) THEN 0 ELSE w[i] * row[i] + Dot(w, row, i + 1)

\* the rebuilt keras network: a fixed function of its weights and its input
KerasPredict(weights, x) ==
    <<weights.b_diet + Dot(weights.w_diet, x[1], 1),
      weights.b_workout + Dot(weights.w_workout, x[1], 1)>>

\* model.predict(input_features), then the two int() conversions
ModelPredict(m, x) ==
    CASE m.kind = "heuristic" -> HeuristicPredict(x)
      [] m.kind = "fallback" -> FallbackPredict(x)
      [] m.kind = "keras" -> KerasPredict(m.model_dict.model_weights, x)

(***************************************************************************)
(* The catalogs and the plan rules.                                        *)
(***************************************************************************)
MealCatalog ==
    << [Meal |-> "Breakfast", Food |-> "Oatmeal + Nuts", Calories |-> "350 kcal",
        Alternative |-> "Whole Wheat Toast", Allergen |-> "nuts"],
       [Meal |-> "Lunch", Food |-> "Grilled Chicken + Peanut Sauce", Calories |-> "600 kcal",
        Alternative |-> "Tofu + Salad", Allergen |-> "nuts"],
       [Meal |-> "Dinner", Food |-> "Fish + Almond Quinoa", Calories |-> "500 kcal",
        Alternative |-> "Lentil Soup + Rice", Allergen |-> "nuts"] >>

\* the key "Reps/Sets" is written RepsSets
WorkoutCatalog ==
    << [Exercise |-> "Bench Press", Type |-> "Strength", RepsSets |-> "4 sets x 8 reps", CaloriesBurned |-> "250 kcal"],
       [Exercise |-> "Deadlifts", Type |-> "Strength", RepsSets |-> "4 sets x 6 reps", CaloriesBurned |-> "300 kcal"],
       [Exercise |-> "Cycling", Type |-> "Cardio", RepsSets |-> "30 mins", CaloriesBurned |-> "400 kcal"],
       [Exercise |-> "Jump Rope", Type |-> "Cardio", RepsSets |-> "15 mins", CaloriesBurned |-> "150 kcal"] >>

\* mutant: the allergy must equal the allergen tag
AllergyEquals(allergy, m) == allergy # "" /\ allergy = Lower(m.Allergen)

\* user_allergy and user_allergy in m["Allergen"].lower()
AllergyMatches(allergy, m) == allergy # "" /\ Contains(allergy, Lower(m.Allergen))

SubstituteItem(m) ==
    [Meal |-> m.Meal, Food |-> m.Alternative, Calories |-> m.Calories, AllergySafe |-> TRUE]

\* mutant: the flag tells that the primary food was kept
PrimaryItemFlagged(m) ==
    [Meal |-> m.Meal, Food |-> m.Food, Calories |-> m.Calories, AllergySafe |-> FALSE]

PrimaryItem(m) ==
    [Meal |-> m.Meal, Food |-> m.Food, Calories |-> m.Calories, AllergySafe |-> TRUE]

RECURSIVE MealLoop(_, _, _, _)
\* for m in meals: meal_plan.append(...)
MealLoop(ms, allergy, i, plan) ==
    IF i > Len(ms) THEN plan
    ELSE MealLoop(ms, allergy, i + 1,
                  Append(plan, IF AllergyMatches(allergy, ms[i])
                               THEN SubstituteItem(ms[i])
                               ELSE PrimaryItem(ms[i])))

\* mutant: an unrecognised goal includes every entry
WorkoutIncludedElseAll(goal, w) ==
    IF goal = "muscle-gain" THEN Lower(w.Type) = "strength"
    ELSE IF goal = "weight-loss" THEN Lower(w.Type) = "cardio"
    ELSE TRUE

\* the if / elif / elif chain of the workout loop
WorkoutIncluded(goal, w) ==
    IF goal = "muscle-gain" /\ Lower(w.Type) = "strength" THEN TRUE
    ELSE IF goal = "weight-loss" /\ Lower(w.Type) = "cardio" THEN TRUE
    ELSE IF goal = "general-fitness" THEN TRUE
    ELSE FALSE

RECURSIVE WorkoutLoop(_, _, _, _)
\* for w in workouts: workout_plan.append(w)
WorkoutLoop(ws, goal, i, plan) ==
    IF i > Len(ws) THEN plan
    ELSE WorkoutLoop(ws, goal, i + 1,
                     IF WorkoutIncluded(goal, ws[i]) THEN Append(plan, ws[i]) ELSE plan)

\* the response dict of a successful request
SuccessResponse(diet, workout, mp, wp) ==
    [status |-> 200,
     body |-> [PredictedDiet |-> IntToStr(diet) \o " kcal per day",
               PredictedWorkout |-> IntToStr(workout) \o " workout days per week",
               MealPlan |-> mp,
               WorkoutPlan |-> wp]]

(***************************************************************************)
(* The pickle file and the requests explored.                              *)
(***************************************************************************)
\* a stand-in for the trained network stored in the pickle
SampleWeights ==
    [w_diet |-> [i \in 1..13 |-> IF i = 10 THEN 1 ELSE 0], b_diet |-> 300,
     w_workout |-> [i \in 1..13 |-> IF i = 13 THEN 1 ELSE 0], b_workout |-> 2]

UnreadablePkl == [type |-> "unreadable"]
KerasDictPkl == [type |-> "dict", model_json |-> "{...}", model_weights |-> SampleWeights]
ObjectPkl == [type |-> "object"]

Artifacts == {UnreadablePkl, KerasDictPkl, ObjectPkl}

EmptyBody == [k \in {} |-> ""]

Profile(p, bmr, act) ==
    [age |-> 25 + p, gender |-> p % 2, height_cm |-> 170 + p, weight_kg |-> 65 + p,
     bmi |-> 21 + p, body_fat_percent |-> 17 + p, muscle_mass_kg |-> 30 + p,
     bone_mass_kg |-> 3 + p, water_percent |-> 55 + p, bmr_kcal |-> bmr,
     visceral_fat |-> 7 + p, metabolic_age |-> 35 + p, activity_level |-> act]

BmrValues == (-MaxBmr..MaxBmr) \cup {TypicalBmr}
ActValues == -MaxAct..MaxAct

AllergyParts ==
    {EmptyBody} \cup {[user_allergy |-> v] : v \in {"", "NUTS", "Nut", "s", "peanuts"}}
GoalParts ==
    {EmptyBody} \cup
    {[user_goal |-> v] : v \in {"muscle-gain", "WEIGHT-LOSS", "general-fitness", "yoga", ""}}

AllUnused ==
    [user_preference |-> "High-Protein", diet_type |-> "Vegan", workout_preference |-> "Home"]
UnusedParts == {EmptyBody, AllUnused}

Without(d, ks) == [k \in (DOMAIN d) \ ks |-> d[k]]

CompleteBodies ==
    {Profile(p, b, a) @@ al @@ go @@ un :
        p \in 1..NumProfiles, b \in BmrValues, a \in ActValues,
        al \in AllergyParts, go \in GoalParts, un \in UnusedParts}

MissingSets == {m \in SUBSET RequiredKeys : Cardinality(m) \in 1..MaxMissing}

IncompleteBodies ==
    {Without(Profile(p, TypicalBmr, 0) @@ un, m) :
        p \in 1..NumProfiles, un \in UnusedParts, m \in MissingSets}

Requests == CompleteBodies \cup IncompleteBodies \cup {EmptyBody}

\* the requests of the two-thread specification
ConcBodies ==
    {Without(Profile(1, b, 0) @@ al, m) @@ Without(AllUnused, u) :
        b \in {TypicalBmr, -MaxBmr}, al \in {EmptyBody, [user_allergy |-> "Nuts"]},
        m \in {{}}, u \in SUBSET UnusedKeys}
    \cup {Without(Profile(1, TypicalBmr, 0), {"bmr_kcal"}) @@ un : un \in UnusedParts}

(***************************************************************************)
(* Start-up: the module-level code.                                        *)
(***************************************************************************)
Unset(T) == [t \in T |-> None]

InitThreads(T) ==
    /\ variant \in {"testapi1", "app"}
    /\ pkl \in Artifacts
    /\ proc = "starting"
    /\ loaded_obj = None
    /\ model = None
    /\ pc = [t \in T |-> "idle"]
    /\ data = Unset(T)
    /\ user_allergy = Unset(T) /\ user_preference = Unset(T) /\ diet_type = Unset(T)
    /\ workout_preference = Unset(T) /\ user_goal = Unset(T)
    /\ input_features = Unset(T)
    /\ predict_calls = [t \in T |-> 0]
    /\ predicted_diet = Unset(T) /\ predicted_workout = Unset(T)
    /\ meals = Unset(T) /\ meal_plan = Unset(T)
    /\ workouts = Unset(T) /\ workout_plan = Unset(T)
    /\ response = Unset(T)

Init == InitThreads({1})
InitConc == InitThreads({1, 2})

locals == <<pc, data, optionals, input_features, predicted, plans, response>>

\* testapi1.py: try/except around the load, then the choice of DummyModel
LoadModelTestapi1 ==
    /\ variant = "testapi1" /\ proc = "starting"
    /\ LET obj == IF pkl.type = "unreadable" THEN None ELSE pkl
       IN  /\ loaded_obj' = obj
           /\ model' = IF pkl.type = "dict"
                       THEN [kind |-> "heuristic", model_dict |-> obj]
                       ELSE [kind |-> "fallback"]
    /\ proc' = "serving"
    /\ UNCHANGED <<variant, pkl, locals>>

\* app.py: the load, model_from_json and set_weights, none of them guarded
LoadModelApp ==
    /\ variant = "app" /\ proc = "starting"
    /\ IF pkl.type = "dict"
       THEN /\ loaded_obj' = pkl
            /\ model' = [kind |-> "keras", model_dict |-> pkl]
            /\ proc' = "serving"
       ELSE /\ proc' = "crashed"
            /\ UNCHANGED <<loaded_obj, model>>
    /\ UNCHANGED <<variant, pkl, locals>>

(***************************************************************************)
(* The /predict handler, thread t.                                         *)
(***************************************************************************)
\* data = request.get_json(), for one of the request bodies in `bodies`
Receive(t, bodies) ==
    /\ proc = "serving" /\ pc[t] = "idle"
    /\ \E body \in bodies : data' = [data EXCEPT ![t] = body]
    /\ pc' = [pc EXCEPT ![t] = "parse"]
    /\ UNCHANGED <<globals, optionals, input_features, predicted, plans, response>>

\* the try block of the 13 lookups and its except KeyError
ParseRequired(t) ==
    /\ pc[t] = "parse"
    /\ LET k == FirstMissing(data[t])
       IN  IF k # None
           THEN /\ response' = [response EXCEPT ![t] = MissingParameterResponse(k)]
                /\ pc' = [pc EXCEPT ![t] = "done"]
           ELSE /\ pc' = [pc EXCEPT ![t] = "optional"]
                /\ UNCHANGED response
    /\ UNCHANGED <<globals, data, optionals, input_features, predicted, plans>>

\* the five data.get(...) lines
ParseOptional(t) ==
    /\ pc[t] = "optional"
    /\ user_allergy' = [user_allergy EXCEPT ![t] = Lower(Get(data[t], "user_allergy", ""))]
    /\ user_preference' =
          [user_preference EXCEPT ![t] = Lower(Get(data[t], "user_preference", ""))]
    /\ diet_type' = [diet_type EXCEPT ![t] = Get(data[t], "diet_type", "Regular")]
    /\ workout_preference' =
          [workout_preference EXCEPT ![t] = Get(data[t], "workout_preference", "Gym")]
    /\ user_goal' = [user_goal EXCEPT ![t] = Lower(Get(data[t], "user_goal", "general-fitness"))]
    /\ pc' = [pc EXCEPT ![t] = "build"]
    /\ UNCHANGED <<globals, data, input_features, predicted, plans, response>>

\* input_features = np.array([[...]])
BuildFeatures(t) ==
    /\ pc[t] = "build"
    /\ input_features' = [input_features EXCEPT ![t] = BuildVector(data[t])]
    /\ pc' = [pc EXCEPT ![t] = "predict"]
    /\ UNCHANGED <<globals, data, optionals, predicted, plans, response>>

\* mutant: predict is called once for each of the two outputs
CallPredictTwice(t) ==
    /\ pc[t] = "predict"
    /\ predicted_diet' =
          [predicted_diet EXCEPT ![t] = ModelPredict(model, input_features[t])[1]]
    /\ predicted_workout' =
          [predicted_workout EXCEPT ![t] = ModelPredict(model, input_features[t])[2]]
    /\ predict_calls' = [predict_calls EXCEPT ![t] = @ + 2]
    /\ pc' = [pc EXCEPT ![t] = "meals"]
    /\ UNCHANGED <<globals, data, optionals, input_features, plans, response>>

\* mutant: the model object keeps its last result and returns the one before
CallPredictStale(t) ==
    /\ pc[t] = "predict"
    /\ LET predictions == ModelPredict(model, input_features[t])
           returned == IF "last" \in DOMAIN model THEN model.last ELSE predictions
       IN  /\ predicted_diet' = [predicted_diet EXCEPT ![t] = returned[1]]
           /\ predicted_workout' = [predicted_workout EXCEPT ![t] = returned[2]]
           /\ model' = [k \in (DOMAIN model) \cup {"last"} |->
                           IF k = "last" THEN predictions ELSE model[k]]
    /\ predict_calls' = [predict_calls EXCEPT ![t] = @ + 1]
    /\ pc' = [pc EXCEPT ![t] = "meals"]
    /\ UNCHANGED <<variant, pkl, proc, loaded_obj>>
    /\ UNCHANGED <<data, optionals, input_features, plans, response>>

\* predictions = model.predict(input_features) and the two int(...)
CallPredict(t) ==
    /\ pc[t] = "predict"
    /\ LET predictions == ModelPredict(model, input_features[t])
       IN  /\ predicted_diet' = [predicted_diet EXCEPT ![t] = predictions[1]]
           /\ predicted_workout' = [predicted_workout EXCEPT ![t] = predictions[2]]
    /\ predict_calls' = [predict_calls EXCEPT ![t] = @ + 1]
    /\ pc' = [pc EXCEPT ![t] = "meals"]
    /\ UNCHANGED <<globals, data, optionals, input_features, plans, response>>

\* meals = [...] and the loop that fills meal_plan
GenerateMealPlan(t) ==
    /\ pc[t] = "meals"
    /\ meals' = [meals EXCEPT ![t] = MealCatalog]
    /\ meal_plan' = [meal_plan EXCEPT ![t] = MealLoop(MealCatalog, user_allergy[t], 1, <<>>)]
    /\ pc' = [pc EXCEPT ![t] = "workouts"]
    /\ UNCHANGED <<globals, data, optionals, input_features, predicted,
                   workouts, workout_plan, response>>

\* mutant: the workout location filters the plan
GenerateWorkoutPlanByLocation(t) ==
    /\ pc[t] = "workouts"
    /\ workouts' = [workouts EXCEPT ![t] = WorkoutCatalog]
    /\ workout_plan' =
          [workout_plan EXCEPT ![t] =
              IF workout_preference[t] = "Home"
              THEN WorkoutLoop(SubSeq(WorkoutCatalog, 3, 4), user_goal[t], 1, <<>>)
              ELSE WorkoutLoop(WorkoutCatalog, user_goal[t], 1, <<>>)]
    /\ pc' = [pc EXCEPT ![t] = "respond"]
    /\ UNCHANGED <<globals, data, optionals, input_features, predicted,
                   meals, meal_plan, response>>

\* workouts = [...] and the loop that fills workout_plan
GenerateWorkoutPlan(t) ==
    /\ pc[t] = "workouts"
    /\ workouts' = [workouts EXCEPT ![t] = WorkoutCatalog]
    /\ workout_plan' =
          [workout_plan EXCEPT ![t] = WorkoutLoop(WorkoutCatalog, user_goal[t], 1, <<>>)]
    /\ pc' = [pc EXCEPT ![t] = "respond"]
    /\ UNCHANGED <<globals, data, optionals, input_features, predicted,
                   meals, meal_plan, response>>

\* response = {...}; return jsonify(response)
Respond(t) ==
    /\ pc[t] = "respond"
    /\ response' = [response EXCEPT ![t] =
                       SuccessResponse(predicted_diet[t], predicted_workout[t],
                                       meal_plan[t], workout_plan[t])]
    /\ pc' = [pc EXCEPT ![t] = "done"]
    /\ UNCHANGED <<globals, data, optionals, input_features, predicted, plans>>

\* the response has been sent: the handler's locals are gone
Finish(t) ==
    /\ pc[t] = "done"
    /\ pc' = [pc EXCEPT ![t] = "idle"]
    /\ data' = [data EXCEPT ![t] = None]
    /\ user_allergy' = [user_allergy EXCEPT ![t] = None]
    /\ user_preference' = [user_preference EXCEPT ![t] = None]
    /\ diet_type' = [diet_type EXCEPT ![t] = None]
    /\ workout_preference' = [workout_preference EXCEPT ![t] = None]
    /\ user_goal' = [user_goal EXCEPT ![t] = None]
    /\ input_features' = [input_features EXCEPT ![t] = None]
    /\ predict_calls' = [predict_calls EXCEPT ![t] = 0]
    /\ predicted_diet' = [predicted_diet EXCEPT ![t] = None]
    /\ predicted_workout' = [predicted_workout EXCEPT ![t] = None]
    /\ meals' = [meals EXCEPT ![t] = None]
    /\ meal_plan' = [meal_plan EXCEPT ![t] = None]
    /\ workouts' = [workouts EXCEPT ![t] = None]
    /\ workout_plan' = [workout_plan EXCEPT ![t] = None]
    /\ response' = [response EXCEPT ![t] = None]
    /\ UNCHANGED globals

Next ==
    \/ LoadModelTestapi1
    \/ LoadModelApp
    \/ \E t \in DOMAIN pc : Receive(t, Requests)
    \/ \E t \in DOMAIN pc : ParseRequired(t)
    \/ \E t \in DOMAIN pc : ParseOptional(t)
    \/ \E t \in DOMAIN pc : BuildFeatures(t)
    \/ \E t \in DOMAIN pc : CallPredict(t)
    \/ \E t \in DOMAIN pc : GenerateMealPlan(t)
    \/ \E t \in DOMAIN pc : GenerateWorkoutPlan(t)
    \/ \E t \in DOMAIN pc : Respond(t)
    \/ \E t \in DOMAIN pc : Finish(t)

NextConc ==
    \/ LoadModelTestapi1
    \/ LoadModelApp
    \/ \E t \in DOMAIN pc : Receive(t, ConcBodies)
    \/ \E t \in DOMAIN pc : ParseRequired(t)
    \/ \E t \in DOMAIN pc : ParseOptional(t)
    \/ \E t \in DOMAIN pc : BuildFeatures(t)
    \/ \E t \in DOMAIN pc : CallPredict(t)
    \/ \E t \in DOMAIN pc : GenerateMealPlan(t)
    \/ \E t \in DOMAIN pc : GenerateWorkoutPlan(t)
    \/ \E t \in DOMAIN pc : Respond(t)
    \/ \E t \in DOMAIN pc : Finish(t)

\* one request at a time
Spec == Init /\ [][Next]_vars

\* two requests in flight
SpecConc == InitConc /\ [][NextConc]_vars

(***************************************************************************)
(* Properties.                                                             *)
(***************************************************************************)
Threads == DOMAIN pc

\* the required keys in the order the specification enumerates them
ClaimOrder ==
    <<"age", "gender", "height_cm", "weight_kg", "bmi", "body_fat_percent",
      "muscle_mass_kg", "bone_mass_kg", "water_percent", "bmr_kcal",
      "visceral_fat", "metabolic_age", "activity_level">>

Done(t) == pc[t] = "done"
Done200(t) == pc[t] = "done" /\ response[t].status = 200
Done400(t) == pc[t] = "done" /\ response[t].status = 400
Complete(d) == \A i \in 1..Len(ClaimOrder) : ClaimOrder[i] \in DOMAIN d
AbsentIndexes(d) == {i \in 1..Len(ClaimOrder) : ClaimOrder[i] \notin DOMAIN d}

\* C1: a request that lacks at least one required key is answered 400 with
\* {"error": "Missing parameter: '<field>'"}, <field> being the first absent
\* key in the enumeration order, and nothing else.
C1_FirstMissingKey ==
    \A t \in Threads :
        (Done(t) /\ AbsentIndexes(data[t]) # {}) =>
            \E i \in AbsentIndexes(data[t]) :
                /\ \A j \in AbsentIndexes(data[t]) : i <= j
                /\ response[t] =
                      [status |-> 400,
                       body |-> [error |-> "Missing parameter: '" \o ClaimOrder[i] \o "'"]]

C1_Witness ==
    \E t \in Threads :
        /\ Done(t)
        /\ "age" \in DOMAIN data[t]
        /\ "gender" \notin DOMAIN data[t]
        /\ "bmi" \notin DOMAIN data[t]
        /\ response[t].status = 400
        /\ response[t].body.error = "Missing parameter: 'gender'"

LoadFailed == pkl.type = "unreadable" /\ proc # "starting"

\* C2: after a failed load of the predictor artifact the process does not
\* crash and keeps serving, and every successful response carries the
\* heuristic fallback, floor(bmr_kcal * 1.2) and floor(activity_level + 3) of
\* that request's own fields.
C2_FallbackIsHeuristic ==
    LoadFailed =>
        /\ proc = "serving"
        /\ \A t \in Threads :
              Done200(t) =>
                  /\ response[t].body.PredictedDiet =
                        IntToStr((6 * data[t]["bmr_kcal"]) \div 5) \o " kcal per day"
                  /\ response[t].body.PredictedWorkout =
                        IntToStr(data[t]["activity_level"] + 3) \o " workout days per week"

HeuristicActive == proc = "serving" /\ model.kind = "heuristic"

\* C3 as stated: with the heuristic predictor the response carries
\* floor(bmr_kcal * 1.2) and floor(activity_level + 3), negative values included.
C3_Original ==
    HeuristicActive =>
        \A t \in Threads :
            Done200(t) =>
                /\ response[t].body.PredictedDiet =
                      IntToStr((6 * data[t]["bmr_kcal"]) \div 5) \o " kcal per day"
                /\ response[t].body.PredictedWorkout =
                      IntToStr(data[t]["activity_level"] + 3) \o " workout days per week"

\* bmr_kcal * 1.2 rounded toward zero
TowardZero12(b) == IF b >= 0 THEN (6 * b) \div 5 ELSE -((6 * (-b)) \div 5)

\* C3 amended: with the heuristic predictor the response carries bmr_kcal * 1.2
\* rounded toward zero (which is the floor for every bmr_kcal >= 0) and
\* activity_level + 3.
C3_HeuristicTruncates ==
    HeuristicActive =>
        \A t \in Threads :
            Done200(t) =>
                /\ predicted_diet[t] = TowardZero12(data[t]["bmr_kcal"])
                /\ predicted_workout[t] = data[t]["activity_level"] + 3
                /\ response[t].body.PredictedDiet =
                      IntToStr(TowardZero12(data[t]["bmr_kcal"])) \o " kcal per day"
                /\ response[t].body.PredictedWorkout =
                      IntToStr(data[t]["activity_level"] + 3) \o " workout days per week"

C3_Witness ==
    \E t \in Threads :
        /\ HeuristicActive
        /\ Done200(t)
        /\ data[t]["bmr_kcal"] = -3
        /\ data[t]["activity_level"] = -1
        /\ response[t].body.PredictedDiet = "-3 kcal per day"
        /\ response[t].body.PredictedWorkout = "2 workout days per week"

VectorBuilt(t) == pc[t] \in {"predict", "meals", "workouts", "respond"} \/ Done200(t)

\* C4: the vector handed to the predictor is one row of 13 elements, the i-th
\* being the request's value of the i-th required field; slots 9 and 12
\* (0-based) hold bmr_kcal and activity_level.
C4_VectorOrder ==
    \A t \in Threads :
        VectorBuilt(t) =>
            /\ Len(input_features[t]) = 1
            /\ Len(input_features[t][1]) = 13
            /\ \A i \in 1..13 : input_features[t][1][i] = data[t][ClaimOrder[i]]
            /\ input_features[t][1][9 + 1] = data[t]["bmr_kcal"]
            /\ input_features[t][1][12 + 1] = data[t]["activity_level"]

C4_Witness ==
    \E t \in Threads :
        /\ pc[t] = "meals"
        /\ predict_calls[t] = 1
        /\ data[t]["bmr_kcal"] = TypicalBmr
        /\ data[t]["activity_level"] = MaxAct
        /\ input_features[t][1][10] = TypicalBmr
        /\ input_features[t][1][13] = MaxAct

Foods(plan) == [i \in 1..Len(plan) |-> plan[i].Food]
SubstituteFoods == <<"Whole Wheat Toast", "Tofu + Salad", "Lentil Soup + Rice">>
PrimaryFoods == <<"Oatmeal + Nuts", "Grilled Chicken + Peanut Sauce", "Fish + Almond Quinoa">>

\* C5: the meal plan carries the three substitute foods iff the lower-cased
\* user_allergy is a non-empty substring of "nuts", the three primary foods
\* otherwise; "nuts" and "nut" in any case substitute, an absent or empty
\* user_allergy and a string that is no substring of "nuts" do not.
C5_AllergySubstitution ==
    \A t \in Threads :
        Done200(t) =>
            LET present == "user_allergy" \in DOMAIN data[t]
                raw == IF present THEN data[t]["user_allergy"] ELSE ""
                foods == Foods(response[t].body.MealPlan)
            IN  /\ foods = IF Lower(raw) # "" /\ Contains(Lower(raw), "nuts")
                           THEN SubstituteFoods ELSE PrimaryFoods
                /\ raw \in {"nuts", "NUTS", "nut", "Nut"} => foods = SubstituteFoods
                /\ (~present \/ raw \in {"", "peanuts"}) => foods = PrimaryFoods

C5_Witness ==
    \E t \in Threads :
        /\ Done200(t)
        /\ "user_allergy" \in DOMAIN data[t]
        /\ data[t]["user_allergy"] = "Nut"
        /\ response[t].body.MealPlan[2].Food = "Tofu + Salad"

Exercises(plan) == [i \in 1..Len(plan) |-> plan[i].Exercise]

\* C6: the workout plan depends on the lower-cased user_goal alone:
\* muscle-gain gives Bench Press, Deadlifts; weight-loss gives Cycling, Jump
\* Rope; general-fitness or no user_goal gives all four; any other string gives
\* the empty list, with status 200.  The entries are the catalogue's, in order.
C6_GoalFilter ==
    \A t \in Threads :
        /\ (Done(t) /\ Complete(data[t])) => response[t].status = 200
        /\ Done200(t) =>
              LET goal == IF "user_goal" \in DOMAIN data[t]
                          THEN Lower(data[t]["user_goal"]) ELSE "general-fitness"
                  plan == response[t].body.WorkoutPlan
                  expected == CASE goal = "muscle-gain" -> <<1, 2>>
                                [] goal = "weight-loss" -> <<3, 4>>
                                [] goal = "general-fitness" -> <<1, 2, 3, 4>>
                                [] OTHER -> <<>>
              IN  /\ plan = [i \in 1..Len(expected) |-> WorkoutCatalog[expected[i]]]
                  /\ goal = "muscle-gain" => Exercises(plan) = <<"Bench Press", "Deadlifts">>
                  /\ goal = "weight-loss" => Exercises(plan) = <<"Cycling", "Jump Rope">>
                  /\ goal = "general-fitness" =>
                        Exercises(plan) = <<"Bench Press", "Deadlifts", "Cycling", "Jump Rope">>
                  /\ goal \notin {"muscle-gain", "weight-loss", "general-fitness"} =>
                        plan = <<>>

C6_Witness ==
    \E t \in Threads :
        /\ Done200(t)
        /\ "user_goal" \in DOMAIN data[t]
        /\ data[t]["user_goal"] = "yoga"
        /\ response[t].body.WorkoutPlan = <<>>

\* the model object the start-up code builds
StartupModel ==
    IF variant = "testapi1"
    THEN IF pkl.type = "dict" THEN [kind |-> "heuristic", model_dict |-> pkl]
         ELSE [kind |-> "fallback"]
    ELSE [kind |-> "keras", model_dict |-> pkl]

\* C7: no state survives a request: two answered requests with the same body
\* carry the same status and body whatever was handled before or meanwhile,
\* the global model object is the one start-up built, and the catalogues a
\* request used are the literal tables.
C7_NoStateSurvives ==
    /\ proc = "serving" => model = StartupModel
    /\ \A t \in Threads, u \in Threads :
          (Done(t) /\ Done(u) /\ data[t] = data[u]) => response[t] = response[u]
    /\ \A t \in Threads :
          Done200(t) => meals[t] = MealCatalog /\ workouts[t] = WorkoutCatalog

C7_Witness ==
    /\ Done200(1) /\ Done200(2)
    /\ data[1] = data[2]
    /\ data[1]["bmr_kcal"] = TypicalBmr
    /\ response[1] = response[2]

\* C8: user_preference, diet_type and workout_preference are unused: two
\* accepted requests that differ only in these three keys get the same
\* response.
C8_UnusedFields ==
    \A t \in Threads, u \in Threads :
        (/\ Done(t) /\ Done(u)
         /\ Complete(data[t]) /\ Complete(data[u])
         /\ Without(data[t], UnusedKeys) = Without(data[u], UnusedKeys))
        => /\ response[t].status = 200
           /\ response[t] = response[u]

C8_Witness ==
    /\ Done200(1) /\ Done200(2)
    /\ DOMAIN data[1] \cap UnusedKeys = {}
    /\ UnusedKeys \subseteq DOMAIN data[2]
    /\ Without(data[2], UnusedKeys) = data[1]
    /\ response[1] = response[2]

\* C9: validation precedes prediction: a request lacking a required key never
\* reaches the predictor and its response has the error key only; an accepted
\* request calls the predictor exactly once, after the vector is built and
\* before the plans, and its response has exactly the four result keys.
C9_LinearPass ==
    \A t \in Threads :
        /\ predict_calls[t] =
              IF pc[t] \in {"meals", "workouts", "respond"} \/ Done200(t) THEN 1 ELSE 0
        /\ (Done(t) /\ ~Complete(data[t])) =>
              /\ predict_calls[t] = 0
              /\ DOMAIN response[t].body = {"error"}
        /\ (Done(t) /\ Complete(data[t])) =>
              /\ predict_calls[t] = 1
              /\ DOMAIN response[t].body =
                    {"PredictedDiet", "PredictedWorkout", "MealPlan", "WorkoutPlan"}

C9_Witness ==
    /\ Done400(1) /\ predict_calls[1] = 0
    /\ Done200(2) /\ predict_calls[2] = 1

\* C10: every successful response has exactly three meal items, Breakfast,
\* Lunch, Dinner with 350, 600 and 500 kcal, each flagged AllergySafe, whether
\* the substitute or the primary food was used.
C10_MealPlanShape ==
    \A t \in Threads :
        Done200(t) =>
            LET plan == response[t].body.MealPlan
            IN  /\ Len(plan) = 3
                /\ [i \in 1..3 |-> plan[i].Meal] = <<"Breakfast", "Lunch", "Dinner">>
                /\ [i \in 1..3 |-> plan[i].Calories] = <<"350 kcal", "600 kcal", "500 kcal">>
                /\ \A i \in 1..3 : plan[i].AllergySafe = TRUE
                /\ \A i \in 1..3 : DOMAIN plan[i] = {"Meal", "Food", "Calories", "AllergySafe"}

C10_Witness ==
    \E t \in Threads :
        /\ Done200(t)
        /\ "user_allergy" \in DOMAIN data[t]
        /\ data[t]["user_allergy"] = "peanuts"
        /\ response[t].body.MealPlan[1].Food = "Oatmeal + Nuts"
        /\ response[t].body.MealPlan[1].AllergySafe = TRUE

====
